---- MODULE Spec2Model ----
(***************************************************************************)
(* Lab inventory tool: the JSON-file data layer (app/data_manager.py) and  *)
(* the Flask request handlers that call it (app/routes.py).                *)
(*                                                                         *)
(* Two files hold all state: inventory.json (cupboards and their items)    *)
(* and history.json (the audit log, newest first).  Every DataManager      *)
(* method is a load / mutate / save cycle under the class-level lock; the  *)
(* constructor creates missing files outside of that lock.                 *)
(***************************************************************************)
EXTENDS Integers, Sequences, FiniteSets, TLC

VARIABLES
    data_file,      \* inventory.json: [state, json], json = [cupboards |-> <<...>>]
    history_file,   \* history.json:   [state, json], json = [history |-> <<...>>]
    session,        \* the Flask session of the browser: [nt_id, role]
    clock,          \* wall clock, in seconds
    last,           \* the request handled by the step just taken, and its outcome
    rt,             \* a borrow, its return and their log entries, while no other call came between
    toggles,        \* number of toggle_lock calls that saved a changed item
    pc,             \* per request thread: position in the toggle-lock handler
    loc,            \* per request thread: the handler's local variables
    lock            \* DataManager._lock: "free" or the thread holding it

vars == <<data_file, history_file, session, clock, last, rt, toggles, pc, loc, lock>>

----------------------------------------------------------------------------
(* Bounds of the model *)

\* the audit log is not extended beyond this many entries
MaxHistory == 2
\* the wall clock stops advancing here
MaxClock == 1
\* add_cupboard is not called when the new id would exceed this
MaxCupboardId == 10
\* add_item is not called on a cupboard that already holds this many items
MaxItems == 4
\* requests handled by one thread in the threaded specification
MaxReqs == 1

----------------------------------------------------------------------------
(* Python values *)

\* Python's None, for the string-valued fields and results
None == "None"

Min(S) == CHOOSE x \in S : \A y \in S : x <= y

Max(S) == CHOOSE x \in S : \A y \in S : x >= y

\* [x for x in s if Keep(x)]
Filter(s, Keep(_)) == SelectSeq(s, Keep)

\* s[:n], n >= 0
Take(s, n) == SubSeq(s, 1, IF n < Len(s) THEN n ELSE Len(s))

\* datetime.strftime('%Y-%m-%d %H:%M:%S') of the wall clock t seconds after
\* midnight of the day the model starts on
strftime(t) ==
    "2026-01-01 00:00:" \o (IF t < 10 THEN "0" \o ToString(t) ELSE ToString(t))

\* f"{n:03d}"
Fmt03d(n) ==
    IF n < 10 THEN "00" \o ToString(n)
    ELSE IF n < 100 THEN "0" \o ToString(n)
    ELSE ToString(n)

\* f"C{cupboard_id}_{new_num:03d}"
ItemId(cupboard_id, num) == "C" \o ToString(cupboard_id) \o "_" \o Fmt03d(num)

\* str.upper() on the identifiers the model uses
upper(s) ==
    CASE s = "jdoe" -> "JDOE"
      [] s = "JDoe" -> "JDOE"
      [] s = "asmith" -> "ASMITH"
      [] OTHER -> s

----------------------------------------------------------------------------
(* Default sample data *)

NewItem(id, name) ==
    [id |-> id, name |-> name, is_locked |-> TRUE,
     borrowed_by |-> None, borrowed_at |-> None]

get_default_data ==
    [cupboards |-> <<
        [id |-> 1, name |-> "Cupboard 1 - Measurement Equipment", items |-> <<
            NewItem("C1_001", "Digital Oscilloscope 100MHz"),
            NewItem("C1_002", "Digital Multimeter"),
            NewItem("C1_003", "Function Generator"),
            NewItem("C1_004", "Logic Analyzer")>>],
        [id |-> 2, name |-> "Cupboard 2 - Power Supplies", items |-> <<
            NewItem("C2_001", "DC Power Supply 30V/5A"),
            NewItem("C2_002", "Variable Power Supply"),
            NewItem("C2_003", "Battery Charger")>>],
        [id |-> 3, name |-> "Cupboard 3 - Development Boards", items |-> <<
            NewItem("C3_001", "Arduino Mega"),
            NewItem("C3_002", "Raspberry Pi 4"),
            NewItem("C3_003", "STM32 Nucleo Board"),
            NewItem("C3_004", "ESP32 Dev Kit")>>],
        [id |-> 4, name |-> "Cupboard 4 - Networking Equipment", items |-> <<
            NewItem("C4_001", "Ethernet Switch 8-Port"),
            NewItem("C4_002", "Wi-Fi Router"),
            NewItem("C4_003", "Network Cable Tester")>>],
        [id |-> 5, name |-> "Cupboard 5 - Testing Tools", items |-> <<
            NewItem("C5_001", "JTAG Debugger"),
            NewItem("C5_002", "USB Protocol Analyzer"),
            NewItem("C5_003", "CAN Bus Analyzer"),
            NewItem("C5_004", "Spectrum Analyzer")>>],
        [id |-> 6, name |-> "Cupboard 6 - Cables & Connectors", items |-> <<
            NewItem("C6_001", "USB-A to USB-B Cable Set"),
            NewItem("C6_002", "HDMI Cable Set"),
            NewItem("C6_003", "Jumper Wire Kit"),
            NewItem("C6_004", "BNC Cable Set")>>],
        [id |-> 7, name |-> "Cupboard 7 - Safety Equipment", items |-> <<
            NewItem("C7_001", "ESD Wrist Strap"),
            NewItem("C7_002", "Safety Goggles"),
            NewItem("C7_003", "Anti-Static Mat")>>],
        [id |-> 8, name |-> "Cupboard 8 - Hand Tools", items |-> <<
            NewItem("C8_001", "Soldering Station"),
            NewItem("C8_002", "Precision Screwdriver Set"),
            NewItem("C8_003", "Wire Stripper"),
            NewItem("C8_004", "Heat Gun")>>],
        [id |-> 9, name |-> "Cupboard 9 - Miscellaneous", items |-> <<
            NewItem("C9_001", "Label Printer"),
            NewItem("C9_002", "USB Hub 7-Port"),
            NewItem("C9_003", "SD Card Reader")>>]
    >>]

----------------------------------------------------------------------------
(* DataManager methods, as functions of the loaded document.  Each yields  *)
(* the return value, the document after the call and whether it was saved. *)

\* index of the first cupboard with this id that satisfies Has, or 0
FirstCupboard(data, cupboard_id, Has(_)) ==
    LET hit == {ci \in DOMAIN data.cupboards :
                    data.cupboards[ci].id = cupboard_id /\ Has(data.cupboards[ci])}
    IN  IF hit = {} THEN 0 ELSE Min(hit)

\* FirstItem, had the scan of line 122 settled for the first item of the
\* cupboard when none has the id
FirstItemOrFirst(cupboard, item_id) ==
    LET hit == {ii \in DOMAIN cupboard.items : cupboard.items[ii].id = item_id}
    IN  IF hit # {} THEN Min(hit) ELSE IF cupboard.items = <<>> THEN 0 ELSE 1

\* index of the first item with this id in the cupboard, or 0
FirstItem(cupboard, item_id) ==
    LET hit == {ii \in DOMAIN cupboard.items : cupboard.items[ii].id = item_id}
    IN  IF hit = {} THEN 0 ELSE Min(hit)

HasItem(cupboard, item_id) == FirstItem(cupboard, item_id) # 0

\* Borrowed, had line 127 been left out: the borrower is not recorded
BorrowedNoOwner(item, nt_id, now) ==
    [item EXCEPT !.is_locked = FALSE, !.borrowed_at = now]

\* the item after "UNLOCK (borrow)"
Borrowed(item, nt_id, now) ==
    [item EXCEPT !.is_locked = FALSE, !.borrowed_by = nt_id, !.borrowed_at = now]

\* Returned, had line 143 been left out: the borrow time survives the return
ReturnedKeepsTime(item) ==
    [item EXCEPT !.is_locked = TRUE, !.borrowed_by = None]

\* Returned, had line 142 been left out: the borrower survives the return
ReturnedKeepsBorrower(item) ==
    [item EXCEPT !.is_locked = TRUE, !.borrowed_at = None]

\* the item after "LOCK (return)"
Returned(item) ==
    [item EXCEPT !.is_locked = TRUE, !.borrowed_by = None, !.borrowed_at = None]

\* MayReturn, had line 134 not looked at is_admin
MayReturnBorrowerOnly(item, nt_id, is_admin) == item.borrowed_by = nt_id

\* MayReturn, had the check of lines 134-139 been left out
MayReturnAnyone(item, nt_id, is_admin) == TRUE

\* "Only the borrower or admin can return"
MayReturn(item, nt_id, is_admin) == ~(item.borrowed_by # nt_id /\ ~is_admin)

toggle_lock(data, cupboard_id, item_id, nt_id, is_admin, now) ==
    LET Has(c) == HasItem(c, item_id)
        ci == FirstCupboard(data, cupboard_id, Has)
    IN  IF ci = 0
        THEN [action |-> None, item_name |-> None, cupboard_name |-> None,
              data |-> data, saved |-> FALSE]
        ELSE
          LET cupboard == data.cupboards[ci]
              ii == FirstItem(cupboard, item_id)
              item == cupboard.items[ii]
          IN  IF item.is_locked
              THEN [action |-> "unlocked", item_name |-> item.name,
                    cupboard_name |-> cupboard.name,
                    data |-> [data EXCEPT !.cupboards[ci].items[ii] =
                                              Borrowed(item, nt_id, now)],
                    saved |-> TRUE]
              ELSE IF ~MayReturn(item, nt_id, is_admin)
              THEN [action |-> "not_authorized", item_name |-> item.name,
                    cupboard_name |-> cupboard.name,
                    data |-> data, saved |-> FALSE]
              ELSE [action |-> "locked", item_name |-> item.name,
                    cupboard_name |-> cupboard.name,
                    data |-> [data EXCEPT !.cupboards[ci].items[ii] = Returned(item)],
                    saved |-> TRUE]

\* NewNum as a counter: one more than the number of items
NewNumCount(existing_ids, cupboard_id, n) == Cardinality(existing_ids) + 1

\* the while loop of add_item: the first number from n on whose id is free
RECURSIVE NewNum(_, _, _)
NewNum(existing_ids, cupboard_id, n) ==
    IF ItemId(cupboard_id, n) \in existing_ids
    THEN NewNum(existing_ids, cupboard_id, n + 1)
    ELSE n

AnyCupboard(c) == TRUE

add_item(data, cupboard_id, item_name) ==
    LET ci == FirstCupboard(data, cupboard_id, AnyCupboard)
    IN  IF ci = 0
        THEN [ret |-> FALSE, data |-> data, saved |-> FALSE]
        ELSE
          LET cupboard == data.cupboards[ci]
              existing_ids == {cupboard.items[ii].id : ii \in DOMAIN cupboard.items}
              new_num == NewNum(existing_ids, cupboard_id, 1)
              new_item == NewItem(ItemId(cupboard_id, new_num), item_name)
          IN  [ret |-> TRUE,
               data |-> [data EXCEPT !.cupboards[ci].items = Append(@, new_item)],
               saved |-> TRUE]

\* remove_item, had line 186 been "return True"
remove_item_true(data, cupboard_id, item_id) ==
    LET ci == FirstCupboard(data, cupboard_id, AnyCupboard)
        Keep(i) == i.id # item_id
    IN  IF ci = 0
        THEN [ret |-> TRUE, data |-> data, saved |-> FALSE]
        ELSE [ret |-> TRUE,
              data |-> [data EXCEPT !.cupboards[ci].items = Filter(@, Keep)],
              saved |-> TRUE]

remove_item(data, cupboard_id, item_id) ==
    LET ci == FirstCupboard(data, cupboard_id, AnyCupboard)
        Keep(i) == i.id # item_id
    IN  IF ci = 0
        THEN [ret |-> FALSE, data |-> data, saved |-> FALSE]
        ELSE [ret |-> TRUE,
              data |-> [data EXCEPT !.cupboards[ci].items = Filter(@, Keep)],
              saved |-> TRUE]

\* add_cupboard, had line 197 numbered the new cupboard by the length of the list
add_cupboard_count(data, cupboard_name) ==
    LET cupboards == data.cupboards
    IN  [ret |-> TRUE,
         data |-> [data EXCEPT !.cupboards =
                      Append(cupboards,
                             [id |-> Len(cupboards) + 1, name |-> cupboard_name,
                              items |-> <<>>])],
         saved |-> TRUE]

add_cupboard(data, cupboard_name) ==
    LET cupboards == data.cupboards
        ids == {cupboards[ci].id : ci \in DOMAIN cupboards}
        new_id == (IF ids = {} THEN 0 ELSE Max(ids)) + 1
    IN  [ret |-> TRUE,
         data |-> [data EXCEPT !.cupboards =
                      Append(cupboards,
                             [id |-> new_id, name |-> cupboard_name, items |-> <<>>])],
         saved |-> TRUE]

\* remove_cupboard, had line 212 compared with "<" where it has "!="
remove_cupboard_below(data, cupboard_id) ==
    LET Keep(c) == c.id < cupboard_id
    IN  [ret |-> TRUE,
         data |-> [data EXCEPT !.cupboards = Filter(@, Keep)],
         saved |-> TRUE]

remove_cupboard(data, cupboard_id) ==
    LET Keep(c) == c.id # cupboard_id
    IN  [ret |-> TRUE,
         data |-> [data EXCEPT !.cupboards = Filter(@, Keep)],
         saved |-> TRUE]

get_all_cupboards(data) == data.cupboards

\* log_action, had line 56 appended the entry where it inserts it at the front
log_action_append(hist, action, item_name, cupboard_name, nt_id, now) ==
    LET entry == [timestamp |-> now, action |-> action, item_name |-> item_name,
                  cupboard_name |-> cupboard_name, nt_id |-> nt_id]
    IN  [hist EXCEPT !.history = Append(@, entry)]

\* log_action, had line 56 started a new list with the entry
log_action_alone(hist, action, item_name, cupboard_name, nt_id, now) ==
    LET entry == [timestamp |-> now, action |-> action, item_name |-> item_name,
                  cupboard_name |-> cupboard_name, nt_id |-> nt_id]
    IN  [hist EXCEPT !.history = <<entry>>]

\* the entry log_action builds and the log after inserting it at the front
log_action(hist, action, item_name, cupboard_name, nt_id, now) ==
    LET entry == [timestamp |-> now, action |-> action, item_name |-> item_name,
                  cupboard_name |-> cupboard_name, nt_id |-> nt_id]
    IN  [hist EXCEPT !.history = <<entry>> \o @]

\* a filter argument that the "if nt_id_filter:" / "if action_filter:" tests pass
Truthy(f) == f # None /\ f # ""

\* get_history, had line 71 compared the ids as they are
get_history_exact(hist, nt_id_filter, action_filter, limit) ==
    LET ByNt(r) == r.nt_id = nt_id_filter
        ByAction(r) == r.action = action_filter
        records0 == hist.history
        records1 == IF Truthy(nt_id_filter) THEN Filter(records0, ByNt) ELSE records0
        records2 == IF Truthy(action_filter) THEN Filter(records1, ByAction) ELSE records1
    IN  Take(records2, limit)

get_history(hist, nt_id_filter, action_filter, limit) ==
    LET ByNt(r) == upper(r.nt_id) = upper(nt_id_filter)
        ByAction(r) == r.action = action_filter
        records0 == hist.history
        records1 == IF Truthy(nt_id_filter) THEN Filter(records0, ByNt) ELSE records0
        records2 == IF Truthy(action_filter) THEN Filter(records1, ByAction) ELSE records1
    IN  Take(records2, limit)

----------------------------------------------------------------------------
(* The two files *)

Stored(json) == [state |-> "ok", json |-> json]

\* no file at the path; the json field is then a placeholder that is never read
NoDataFile == [state |-> "absent", json |-> [cupboards |-> <<>>]]

NoHistoryFile == [state |-> "absent", json |-> [history |-> <<>>]]

\* os.path.exists: a file that was opened for writing exists, whatever it holds
exists(file) == file.state # "absent"

\* open(path, 'w'): the file is created or truncated; nothing is written yet
opened(file) == [file EXCEPT !.state = "empty"]

\* json.dump through a handle that open(path, 'w') returned earlier, followed
\* by the close: the bytes go to offset 0.  They are the whole file when the
\* file is still empty or holds the same text; over a text that another
\* handle wrote in between they leave that text's tail behind, which no
\* longer parses (json is a freshly created document here, the shortest
\* text the file ever holds).
dumped(file, json) ==
    IF file.state = "empty" \/ file = Stored(json)
    THEN Stored(json)
    ELSE [file EXCEPT !.state = "corrupt"]

\* json.load succeeds
loadable(file) == file.state = "ok"

\* _ensure_data_file, run in one piece
ensure_data_file(file) == IF ~exists(file) THEN Stored(get_default_data) ELSE file

\* _ensure_history_file, run in one piece
ensure_history_file(file) == IF ~exists(file) THEN Stored([history |-> <<>>]) ELSE file

\* _save_data / _save_history when the method saved, the file as it was otherwise
save(file, json, saved) == IF saved THEN Stored(json) ELSE file

Cupboards == data_file.json.cupboards

History == history_file.json.history

----------------------------------------------------------------------------
(* Ghost records and the initial state *)

\* what `last` holds after a step that made no call and handled no request
NoRequest ==
    [op |-> "none", cupboard_id |-> 0, item_id |-> "", name |-> "",
     nt_id |-> None, is_admin |-> FALSE, limit |-> 0, response |-> "",
     ret |-> FALSE, action |-> None, item_name |-> None, cupboard_name |-> None,
     out |-> <<>>, pre |-> [cupboards |-> <<>>], hpre |-> <<>>]

\* a call or request, before it has run: the documents it starts from
Request(op) == [NoRequest EXCEPT !.op = op, !.pre = data_file.json, !.hpre = History]

NoRoundTrip ==
    [active |-> FALSE, done |-> FALSE, cupboard_id |-> 0, item_id |-> "",
     nt_id |-> None, pre |-> [cupboards |-> <<>>], hpre |-> <<>>,
     borrow |-> "", return |-> "", logged |-> 0]

LoggedOut == [nt_id |-> None, role |-> None]

Threads == {"t1", "t2"}

IdleLocals ==
    [nt_id |-> None, is_admin |-> FALSE, cupboard_id |-> 0, item_id |-> "",
     data |-> [cupboards |-> <<>>], hist |-> [history |-> <<>>],
     action |-> None, item_name |-> None, cupboard_name |-> None,
     call |-> "", reqs |-> 0, response |-> ""]

threadVars == <<pc, loc, lock>>

\* both files as the first DataManager(...) of a fresh installation leaves them
Init ==
    /\ data_file = ensure_data_file(NoDataFile)
    /\ history_file = ensure_history_file(NoHistoryFile)
    /\ session = LoggedOut
    /\ clock = 0
    /\ last = NoRequest
    /\ rt = NoRoundTrip
    /\ toggles = 0
    /\ pc = [t \in Threads |-> "idle"]
    /\ loc = [t \in Threads |-> IdleLocals]
    /\ lock = "free"

\* datetime.now().strftime(...)
Now == strftime(clock)

\* a second of wall-clock time passes
Tick ==
    /\ clock < MaxClock
    /\ clock' = clock + 1
    /\ last' = NoRequest
    /\ UNCHANGED <<data_file, history_file, session, rt, toggles, threadVars>>

----------------------------------------------------------------------------
(* DataManager's inventory methods, called one at a time on one instance *)

NtIds == {"JDOE", "ASMITH"}

\* <<cupboard_id, item_id>> of the toggle_lock calls: an item, an item id
\* that exists in another cupboard only, no such cupboard, no such item
ToggleTargets == {<<1, "C1_002">>, <<2, "C1_002">>, <<12, "C1_002">>, <<1, "C1_009">>}

AddItemCupboardIds == {1, 12}

ItemNames == {"Probe"}

RemoveItemCupboardIds == {1, 12}

RemoveItemIds == {"C1_002", "C1_009"}

CupboardNames == {"Spare"}

RemoveCupboardIds == {9, 12}

\* a DataManager inventory method returned: the file it left, the record of the call
Returned_(call, result) ==
    /\ data_file' = save(data_file, result.data, result.saved)
    /\ last' = call
    /\ UNCHANGED <<history_file, session, clock, rt, toggles, threadVars>>

Call_toggle_lock(cupboard_id, item_id, nt_id, is_admin) ==
    LET result == toggle_lock(data_file.json, cupboard_id, item_id, nt_id, is_admin, Now)
    IN  Returned_([Request("toggle_lock") EXCEPT
                      !.cupboard_id = cupboard_id, !.item_id = item_id,
                      !.nt_id = nt_id, !.is_admin = is_admin,
                      !.action = result.action, !.item_name = result.item_name,
                      !.cupboard_name = result.cupboard_name],
                  result)

Call_add_item(cupboard_id, item_name) ==
    LET result == add_item(data_file.json, cupboard_id, item_name)
        ci == FirstCupboard(data_file.json, cupboard_id, AnyCupboard)
    IN  /\ ci # 0 => Len(Cupboards[ci].items) < MaxItems
        /\ Returned_([Request("add_item") EXCEPT
                         !.cupboard_id = cupboard_id, !.name = item_name,
                         !.ret = result.ret],
                     result)

Call_remove_item(cupboard_id, item_id) ==
    LET result == remove_item(data_file.json, cupboard_id, item_id)
    IN  Returned_([Request("remove_item") EXCEPT
                      !.cupboard_id = cupboard_id, !.item_id = item_id,
                      !.ret = result.ret],
                  result)

Call_add_cupboard(cupboard_name) ==
    LET result == add_cupboard(data_file.json, cupboard_name)
    IN  /\ \A ci \in DOMAIN result.data.cupboards :
              result.data.cupboards[ci].id <= MaxCupboardId
        /\ Returned_([Request("add_cupboard") EXCEPT
                         !.name = cupboard_name, !.ret = result.ret],
                     result)

Call_remove_cupboard(cupboard_id) ==
    LET result == remove_cupboard(data_file.json, cupboard_id)
    IN  Returned_([Request("remove_cupboard") EXCEPT
                      !.cupboard_id = cupboard_id, !.ret = result.ret],
                  result)

Call_get_all_cupboards ==
    Returned_([Request("get_all_cupboards") EXCEPT
                  !.out = get_all_cupboards(data_file.json)],
              [data |-> data_file.json, saved |-> FALSE])

NextDM ==
    \/ Tick
    \/ \E target \in ToggleTargets, nt_id \in NtIds, is_admin \in BOOLEAN :
          Call_toggle_lock(target[1], target[2], nt_id, is_admin)
    \/ \E c \in AddItemCupboardIds, n \in ItemNames : Call_add_item(c, n)
    \/ \E c \in RemoveItemCupboardIds, i \in RemoveItemIds : Call_remove_item(c, i)
    \/ \E n \in CupboardNames : Call_add_cupboard(n)
    \/ \E c \in RemoveCupboardIds : Call_remove_cupboard(c)
    \/ Call_get_all_cupboards

SpecDM == Init /\ [][NextDM]_vars

----------------------------------------------------------------------------
(* DataManager's audit-log methods, called one at a time on one instance *)

\* the limit get_history has when the caller gives none
DEFAULT_LIMIT == 200

LogActions == {"locked", "unlocked"}

LogItemNames == {"Digital Multimeter"}

LogCupboardNames == {"Cupboard 1 - Measurement Equipment"}

HistoryNtFilters == {None, "", "jdoe", "JDOE"}

HistoryActionFilters == {None, "unlocked"}

HistoryLimits == {0, 1, DEFAULT_LIMIT}

Call_log_action(action, item_name, cupboard_name, nt_id) ==
    /\ Len(History) < MaxHistory
    /\ history_file' =
          Stored(log_action(history_file.json, action, item_name, cupboard_name,
                            nt_id, Now))
    /\ last' = [Request("log_action") EXCEPT
                   !.action = action, !.item_name = item_name,
                   !.cupboard_name = cupboard_name, !.nt_id = nt_id]
    /\ UNCHANGED <<data_file, session, clock, rt, toggles, threadVars>>

Call_get_history(nt_id_filter, action_filter, limit) ==
    /\ last' = [Request("get_history") EXCEPT
                   !.nt_id = nt_id_filter, !.name = action_filter, !.limit = limit,
                   !.out = get_history(history_file.json, nt_id_filter,
                                       action_filter, limit)]
    /\ UNCHANGED <<data_file, history_file, session, clock, rt, toggles, threadVars>>

NextHistory ==
    \/ Tick
    \/ \E a \in LogActions, i \in LogItemNames, c \in LogCupboardNames, n \in NtIds :
          Call_log_action(a, i, c, n)
    \/ \E nf \in HistoryNtFilters, af \in HistoryActionFilters, l \in HistoryLimits :
          Call_get_history(nf, af, l)

SpecHistory == Init /\ [][NextHistory]_vars

----------------------------------------------------------------------------
(* One DataManager on which audit-log methods and inventory methods are     *)
(* called in any order.                                                      *)

NextAudit ==
    \/ Tick
    \/ \E i \in LogItemNames, c \in LogCupboardNames :
          Call_log_action("unlocked", i, c, "JDOE")
    \/ Call_get_history("jdoe", None, DEFAULT_LIMIT)
    \/ Call_toggle_lock(1, "C1_002", "JDOE", FALSE)
    \/ \E n \in ItemNames : Call_add_item(1, n)
    \/ Call_remove_item(1, "C1_002")
    \/ \E n \in CupboardNames : Call_add_cupboard(n)
    \/ Call_remove_cupboard(9)
    \/ Call_get_all_cupboards

SpecAudit == Init /\ [][NextAudit]_vars

----------------------------------------------------------------------------
(* The web application: the requests of one browser.  Every route makes one *)
(* DataManager call and is one step, except toggle-lock, which makes two   *)
(* and is two steps: ToggleLock, then LogAction on the same thread.         *)

\* config.Config.ADMIN_PASSWORD
ADMIN_PASSWORD == "Admin@123"

\* login forms: <<nt_id, is_admin checkbox, password>>
LoginForms ==
    {<<" jdoe ", FALSE, "">>, <<"asmith", FALSE, "">>, <<" ", FALSE, "">>,
     <<"asmith", TRUE, "Admin@123">>, <<"asmith", TRUE, "admin">>}

\* JSON bodies of toggle-lock requests: <<cupboard_id, item_id>>, 0 for a
\* missing cupboard_id
ToggleBodies == {<<1, "C1_002">>, <<0, "C1_002">>, <<1, "C1_009">>}

\* admin forms
AddItemForms == {<<1, "Probe">>, <<1, " ">>, <<12, "Probe">>}

RemoveItemForms == {<<1, "C1_002">>, <<12, "C1_002">>}

AddCupboardForms == {"Spare", " "}

RemoveCupboardForms == {10, 12}

\* query strings of the history page: <<nt_id, action>>
HistoryQueries == {<<" ", "">>, <<"jdoe", "unlocked">>}

\* str.strip() on the form values the model submits
strip(s) ==
    CASE s = " jdoe " -> "jdoe"
      [] s = " " -> ""
      [] OTHER -> s

\* 'nt_id' in session
logged_in == session.nt_id # None

\* admin_required, had lines 37-39 been left out: any session passes
admin_required_any_session == IF ~logged_in THEN "redirect login" ELSE ""

\* what the login_required / admin_required decorators answer instead of the
\* handler, or "" when they let the request through
login_required == IF ~logged_in THEN "redirect login" ELSE ""

admin_required ==
    IF ~logged_in THEN "redirect login"
    ELSE IF session.role # "admin" THEN "Access denied. Admin privileges required."
    ELSE ""

\* a request answered without a DataManager: nothing changes but the response
Answered(req, response) ==
    /\ last' = [req EXCEPT !.response = response]
    /\ UNCHANGED <<data_file, history_file, session, clock, rt, toggles, threadVars>>

\* POST /login
login(form) ==
    LET nt_id == upper(strip(form[1]))
        is_admin == form[2]
        password == form[3]
        req == [Request("login") EXCEPT !.nt_id = nt_id, !.is_admin = is_admin,
                                        !.name = password]
    IN  /\ IF nt_id = ""
           THEN /\ last' = [req EXCEPT !.response = "Please enter your NT ID."]
                /\ UNCHANGED session
           ELSE IF is_admin
           THEN IF password = ADMIN_PASSWORD
                THEN /\ session' = [nt_id |-> nt_id, role |-> "admin"]
                     /\ last' = [req EXCEPT !.response = "Welcome Admin"]
                ELSE /\ last' = [req EXCEPT !.response = "Invalid admin password."]
                     /\ UNCHANGED session
           ELSE /\ session' = [nt_id |-> nt_id, role |-> "user"]
                /\ last' = [req EXCEPT !.response = "Welcome"]
        /\ UNCHANGED <<data_file, history_file, clock, rt, toggles, threadVars>>

\* GET /logout
logout ==
    /\ session' = LoggedOut
    /\ last' = [Request("logout") EXCEPT !.response = "You have been logged out."]
    /\ UNCHANGED <<data_file, history_file, clock, rt, toggles, threadVars>>

\* request threads that have returned from toggle_lock and not yet called
\* log_action
Pending == {t \in Threads : pc[t] = "log_action"}

\* the thread that serves the next toggle-lock request
FreeThread == CHOOSE t \in Threads : pc[t] = "idle"

\* how a toggle_lock call, made by thread t, moves the borrow-then-return tracker
TrackRoundTrip(cupboard_id, item_id, nt_id, result, t) ==
    IF result.action = "unlocked"
    THEN [active |-> TRUE, done |-> FALSE, cupboard_id |-> cupboard_id,
          item_id |-> item_id, nt_id |-> nt_id,
          pre |-> data_file.json, hpre |-> History,
          borrow |-> t, return |-> "", logged |-> 0]
    ELSE IF /\ rt.active /\ ~rt.done
            /\ rt.cupboard_id = cupboard_id
            /\ rt.item_id = item_id
            /\ rt.nt_id = nt_id
    THEN [rt EXCEPT !.done = TRUE, !.return = t]
    ELSE NoRoundTrip

\* POST /api/toggle-lock, lines 112-134: the checks and DataManager.toggle_lock,
\* which takes and releases the lock.  404 and 403 end the request here;
\* after 'locked' or 'unlocked' the request thread goes on to log_action,
\* and until it gets there the clock and other requests move on.
ToggleLock(cupboard_id, item_id) ==
    LET nt_id == session.nt_id
        is_admin == session.role = "admin"
        req == [Request("toggle_lock") EXCEPT
                   !.cupboard_id = cupboard_id, !.item_id = item_id,
                   !.nt_id = nt_id, !.is_admin = is_admin]
        dfile == ensure_data_file(data_file)
        result == toggle_lock(dfile.json, cupboard_id, item_id, nt_id, is_admin, Now)
        done == [req EXCEPT !.action = result.action, !.item_name = result.item_name,
                            !.cupboard_name = result.cupboard_name]
        t == FreeThread
    IN  IF login_required # ""
        THEN Answered(req, login_required)
        ELSE IF cupboard_id = 0 \/ item_id = ""
        THEN Answered(req, "400 Missing required fields")
        ELSE
          /\ \E u \in Threads : pc[u] = "idle"
          /\ result.saved => Len(History) + Cardinality(Pending) < MaxHistory
          /\ data_file' = save(dfile, result.data, result.saved)
          /\ history_file' = ensure_history_file(history_file)
          /\ rt' = TrackRoundTrip(cupboard_id, item_id, nt_id, result, t)
          /\ toggles' = IF result.saved THEN toggles + 1 ELSE toggles
          /\ IF result.action = None
             THEN /\ last' = [done EXCEPT !.response = "404 Item not found"]
                  /\ UNCHANGED <<pc, loc>>
             ELSE IF result.action = "not_authorized"
             THEN /\ last' = [done EXCEPT !.response = "403 borrowed by another user"]
                  /\ UNCHANGED <<pc, loc>>
             ELSE /\ last' = done
                  /\ pc' = [pc EXCEPT ![t] = "log_action"]
                  /\ loc' = [loc EXCEPT ![t] =
                                [IdleLocals EXCEPT
                                    !.nt_id = nt_id, !.is_admin = is_admin,
                                    !.cupboard_id = cupboard_id, !.item_id = item_id,
                                    !.action = result.action,
                                    !.item_name = result.item_name,
                                    !.cupboard_name = result.cupboard_name,
                                    !.call = "log_action"]]
          /\ UNCHANGED <<session, clock, lock>>

\* POST /api/toggle-lock, lines 137-177, on the thread that left toggle_lock
\* with 'locked' or 'unlocked': DataManager.log_action, which takes the lock
\* again and stamps the entry with the time it is called at, then the answer
LogAction(t) ==
    LET l == loc[t]
        hfile == ensure_history_file(history_file)
    IN  /\ pc[t] = "log_action"
        /\ history_file' =
              Stored(log_action(hfile.json, l.action, l.item_name, l.cupboard_name,
                                l.nt_id, Now))
        /\ data_file' = ensure_data_file(data_file)
        /\ last' = [Request("log_action") EXCEPT
                       !.cupboard_id = l.cupboard_id, !.item_id = l.item_id,
                       !.nt_id = l.nt_id, !.is_admin = l.is_admin,
                       !.action = l.action, !.item_name = l.item_name,
                       !.cupboard_name = l.cupboard_name,
                       !.response = "200 " \o l.action]
        /\ rt' = IF rt.active /\ t \in {rt.borrow, rt.return}
                 THEN [rt EXCEPT !.logged = @ + 1]
                 ELSE NoRoundTrip
        /\ pc' = [pc EXCEPT ![t] = "idle"]
        /\ loc' = [loc EXCEPT ![t] = IdleLocals]
        /\ UNCHANGED <<session, clock, toggles, lock>>

\* the request's DataManager call, which was no toggle_lock, left the
\* inventory file as dfile
Called(req, dfile) ==
    /\ last' = req
    /\ data_file' = dfile
    /\ history_file' = ensure_history_file(history_file)
    /\ rt' = NoRoundTrip
    /\ UNCHANGED <<session, clock, toggles, threadVars>>

\* GET /dashboard
dashboard ==
    LET req == Request("dashboard")
        dfile == ensure_data_file(data_file)
    IN  IF login_required # ""
        THEN Answered(req, login_required)
        ELSE Called([req EXCEPT !.out = get_all_cupboards(dfile.json)], dfile)

\* GET /admin
admin ==
    LET req == Request("admin")
        dfile == ensure_data_file(data_file)
    IN  IF admin_required # ""
        THEN Answered(req, admin_required)
        ELSE Called([req EXCEPT !.out = get_all_cupboards(dfile.json)], dfile)

\* `x or None`
OrNone(x) == IF x = "" THEN None ELSE x

\* GET /history?nt_id=..&action=..
history(nt_id_arg, action_arg) ==
    LET req == Request("history")
        hfile == ensure_history_file(history_file)
        nt_id_filter == strip(nt_id_arg)
        action_filter == strip(action_arg)
        records == get_history(hfile.json, OrNone(nt_id_filter),
                               OrNone(action_filter), DEFAULT_LIMIT)
    IN  IF admin_required # ""
        THEN Answered(req, admin_required)
        ELSE Called([req EXCEPT !.out = records], ensure_data_file(data_file))

\* POST /admin/add-item
AddItem(cupboard_id, item_name_arg) ==
    LET item_name == strip(item_name_arg)
        req == Request("add_item")
        dfile == ensure_data_file(data_file)
        result == add_item(dfile.json, cupboard_id, item_name)
        ci == FirstCupboard(dfile.json, cupboard_id, AnyCupboard)
    IN  IF admin_required # ""
        THEN Answered(req, admin_required)
        ELSE IF item_name = ""
        THEN Answered(req, "Item name is required.")
        ELSE
          /\ ci # 0 => Len(dfile.json.cupboards[ci].items) < MaxItems
          /\ Called([req EXCEPT !.ret = result.ret,
                                !.response = IF result.ret
                                             THEN "Item added successfully."
                                             ELSE "Failed to add item. Cupboard not found."],
                    save(dfile, result.data, result.saved))

\* POST /admin/remove-item
RemoveItem(cupboard_id, item_id) ==
    LET req == Request("remove_item")
        dfile == ensure_data_file(data_file)
        result == remove_item(dfile.json, cupboard_id, item_id)
    IN  IF admin_required # ""
        THEN Answered(req, admin_required)
        ELSE Called([req EXCEPT !.ret = result.ret,
                                !.response = IF result.ret
                                             THEN "Item removed successfully."
                                             ELSE "Failed to remove item."],
                    save(dfile, result.data, result.saved))

\* POST /admin/add-cupboard
AddCupboard(cupboard_name_arg) ==
    LET cupboard_name == strip(cupboard_name_arg)
        req == Request("add_cupboard")
        dfile == ensure_data_file(data_file)
        result == add_cupboard(dfile.json, cupboard_name)
    IN  IF admin_required # ""
        THEN Answered(req, admin_required)
        ELSE IF cupboard_name = ""
        THEN Answered(req, "Cupboard name is required.")
        ELSE
          /\ \A ci \in DOMAIN result.data.cupboards :
                result.data.cupboards[ci].id <= MaxCupboardId
          /\ Called([req EXCEPT !.ret = result.ret,
                                !.response = IF result.ret
                                             THEN "Cupboard added successfully."
                                             ELSE "Failed to add cupboard."],
                    save(dfile, result.data, result.saved))

\* POST /admin/remove-cupboard
RemoveCupboard(cupboard_id) ==
    LET req == Request("remove_cupboard")
        dfile == ensure_data_file(data_file)
        result == remove_cupboard(dfile.json, cupboard_id)
    IN  IF admin_required # ""
        THEN Answered(req, admin_required)
        ELSE Called([req EXCEPT !.ret = result.ret,
                                !.response = IF result.ret
                                             THEN "Cupboard removed successfully."
                                             ELSE "Failed to remove cupboard."],
                    save(dfile, result.data, result.saved))

\* every route, and the clock
Next ==
    \/ Tick
    \/ \E form \in LoginForms : login(form)
    \/ logout
    \/ \E body \in ToggleBodies : ToggleLock(body[1], body[2])
    \/ \E t \in Threads : LogAction(t)
    \/ dashboard
    \/ admin
    \/ \E query \in HistoryQueries : history(query[1], query[2])
    \/ \E form \in AddItemForms : AddItem(form[1], form[2])
    \/ \E form \in RemoveItemForms : RemoveItem(form[1], form[2])
    \/ \E form \in AddCupboardForms : AddCupboard(form)
    \/ \E form \in RemoveCupboardForms : RemoveCupboard(form)

Spec == Init /\ [][Next]_vars

\* login forms of the access specification: a user, a blank NT ID, the admin
\* password and a wrong one
AccessLogins ==
    {<<" jdoe ", FALSE, "">>, <<" ", FALSE, "">>,
     <<"asmith", TRUE, "Admin@123">>, <<"asmith", TRUE, "admin">>}

\* every route, one form each for the admin routes
NextAccess ==
    \/ \E form \in AccessLogins : login(form)
    \/ logout
    \/ \E body \in ToggleBodies : ToggleLock(body[1], body[2])
    \/ \E t \in Threads : LogAction(t)
    \/ dashboard
    \/ admin
    \/ history("jdoe", "unlocked")
    \/ AddItem(9, "Probe")
    \/ RemoveItem(9, "C9_004")
    \/ AddCupboard("Spare")
    \/ RemoveCupboard(10)

SpecAccess == Init /\ [][NextAccess]_vars

\* borrowing and returning over time: the routes open to every logged-in user
NextLending ==
    \/ Tick
    \/ \E form \in LoginForms : login(form)
    \/ logout
    \/ \E body \in ToggleBodies : ToggleLock(body[1], body[2])
    \/ \E t \in Threads : LogAction(t)
    \/ dashboard

SpecLending == Init /\ [][NextLending]_vars

----------------------------------------------------------------------------
(* POST /api/toggle-lock handled by concurrent request threads.              *)
(* Each thread runs the handler of routes.py line by line: _dm() constructs  *)
(* a DataManager, whose constructor looks for the two files and creates the  *)
(* missing ones without taking the lock; toggle_lock and log_action then     *)
(* load, change and save under DataManager._lock.                            *)

\* the sessions the concurrent requests come with (login_required passes)
ThreadSessions == {[nt_id |-> "JDOE", role |-> "user"], [nt_id |-> "ASMITH", role |-> "user"]}

\* the JSON bodies of the concurrent requests
ThreadBodies == {<<1, "C1_001">>, <<1, "C1_002">>, <<0, "C1_001">>}

\* a fresh installation: neither file exists, no request has arrived
InitThreads ==
    /\ data_file = NoDataFile
    /\ history_file = NoHistoryFile
    /\ session = LoggedOut
    /\ clock = 0
    /\ last = NoRequest
    /\ rt = NoRoundTrip
    /\ toggles = 0
    /\ pc = [t \in Threads |-> "idle"]
    /\ loc = [t \in Threads |-> IdleLocals]
    /\ lock = "free"

\* thread t moves to position p with locals l
Goto(t, p, l) ==
    /\ pc' = [pc EXCEPT ![t] = p]
    /\ loc' = [loc EXCEPT ![t] = l]

\* the handler of thread t returns the response
Respond(t, response, l) ==
    Goto(t, "idle", [l EXCEPT !.response = response, !.reqs = @ + 1])

\* lines 112-122: the request arrives; 400 when a field is missing, _dm() otherwise
Receive(t, sess, body) ==
    LET l == [IdleLocals EXCEPT !.nt_id = sess.nt_id, !.is_admin = sess.role = "admin",
                                !.cupboard_id = body[1], !.item_id = body[2],
                                !.call = "toggle_lock", !.reqs = loc[t].reqs]
    IN  /\ pc[t] = "idle"
        /\ loc[t].reqs < MaxReqs
        /\ IF body[1] = 0 \/ body[2] = ""
           THEN Respond(t, "400 Missing required fields", l)
           ELSE Goto(t, "_ensure_data_file", l)
        /\ UNCHANGED <<data_file, history_file, session, clock, last, rt, toggles, lock>>

\* DataManager.__init__, _ensure_data_file: the os.path.exists test
EnsureDataFile(t) ==
    /\ pc[t] = "_ensure_data_file"
    /\ Goto(t, IF exists(data_file) THEN "_ensure_history_file" ELSE "open_data_file", loc[t])
    /\ UNCHANGED <<data_file, history_file, session, clock, last, rt, toggles, lock>>

\* _ensure_data_file -> _save_data: open(self.data_file, 'w')
OpenDataFile(t) ==
    /\ pc[t] = "open_data_file"
    /\ data_file' = opened(data_file)
    /\ Goto(t, "dump_data_file", loc[t])
    /\ UNCHANGED <<history_file, session, clock, last, rt, toggles, lock>>

\* _ensure_data_file -> _save_data: json.dump of the default document, close
DumpDataFile(t) ==
    /\ pc[t] = "dump_data_file"
    /\ data_file' = dumped(data_file, get_default_data)
    /\ Goto(t, "_ensure_history_file", loc[t])
    /\ UNCHANGED <<history_file, session, clock, last, rt, toggles, lock>>

\* DataManager.__init__, _ensure_history_file: the os.path.exists test; when
\* the file is there the constructor returns and the method is called
EnsureHistoryFile(t) ==
    /\ pc[t] = "_ensure_history_file"
    /\ Goto(t, IF exists(history_file) THEN loc[t].call ELSE "open_history_file", loc[t])
    /\ UNCHANGED <<data_file, history_file, session, clock, last, rt, toggles, lock>>

\* _ensure_history_file: open(self.history_file, 'w')
OpenHistoryFile(t) ==
    /\ pc[t] = "open_history_file"
    /\ history_file' = opened(history_file)
    /\ Goto(t, "dump_history_file", loc[t])
    /\ UNCHANGED <<data_file, session, clock, last, rt, toggles, lock>>

\* _ensure_history_file: json.dump of the empty log, close
DumpHistoryFile(t) ==
    /\ pc[t] = "dump_history_file"
    /\ history_file' = dumped(history_file, [history |-> <<>>])
    /\ Goto(t, loc[t].call, loc[t])
    /\ UNCHANGED <<data_file, session, clock, last, rt, toggles, lock>>

\* toggle_lock: `with self._lock` is entered and _load_data reads the file;
\* a file that does not parse raises, which leaves the `with` and ends the
\* request with a server error
LoadData(t) ==
    /\ pc[t] = "toggle_lock"
    /\ lock = "free"
    /\ IF loadable(data_file)
       THEN /\ lock' = t
            /\ Goto(t, "_save_data", [loc[t] EXCEPT !.data = data_file.json])
       ELSE /\ lock' = "free"
            /\ Respond(t, "500", loc[t])
    /\ UNCHANGED <<data_file, history_file, session, clock, last, rt, toggles>>

\* toggle_lock: the item is looked up and changed in the loaded document,
\* _save_data writes it, the lock is released; back in the handler, lines
\* 124-137: 404, 403 or _dm() again for log_action
SaveData(t) ==
    LET l == loc[t]
        result == toggle_lock(l.data, l.cupboard_id, l.item_id, l.nt_id, l.is_admin, Now)
        done == [l EXCEPT !.action = result.action, !.item_name = result.item_name,
                          !.cupboard_name = result.cupboard_name]
    IN  /\ pc[t] = "_save_data"
        /\ lock = t
        /\ lock' = "free"
        /\ data_file' = save(data_file, result.data, result.saved)
        /\ toggles' = IF result.saved THEN toggles + 1 ELSE toggles
        /\ IF result.action = None
           THEN Respond(t, "404 Item not found", done)
           ELSE IF result.action = "not_authorized"
           THEN Respond(t, "403 borrowed by another user", done)
           ELSE Goto(t, "_ensure_data_file", [done EXCEPT !.call = "log_action"])
        /\ UNCHANGED <<history_file, session, clock, last, rt>>

\* log_action: `with self._lock` is entered and _load_history reads the file
LoadHistory(t) ==
    /\ pc[t] = "log_action"
    /\ lock = "free"
    /\ IF loadable(history_file)
       THEN /\ lock' = t
            /\ Goto(t, "_save_history", [loc[t] EXCEPT !.hist = history_file.json])
       ELSE /\ lock' = "free"
            /\ Respond(t, "500", loc[t])
    /\ UNCHANGED <<data_file, history_file, session, clock, last, rt, toggles>>

\* log_action: the entry is inserted, _save_history writes the log, the lock
\* is released; the handler answers 200
SaveHistory(t) ==
    LET l == loc[t]
    IN  /\ pc[t] = "_save_history"
        /\ lock = t
        /\ lock' = "free"
        /\ history_file' = Stored(log_action(l.hist, l.action, l.item_name,
                                             l.cupboard_name, l.nt_id, Now))
        /\ Respond(t, "200 " \o l.action, l)
        /\ UNCHANGED <<data_file, session, clock, last, rt, toggles>>

NextThreads ==
    \E t \in Threads :
        \/ \E sess \in ThreadSessions, body \in ThreadBodies : Receive(t, sess, body)
        \/ EnsureDataFile(t)
        \/ OpenDataFile(t)
        \/ DumpDataFile(t)
        \/ EnsureHistoryFile(t)
        \/ OpenHistoryFile(t)
        \/ DumpHistoryFile(t)
        \/ LoadData(t)
        \/ SaveData(t)
        \/ LoadHistory(t)
        \/ SaveHistory(t)

SpecThreads == InitThreads /\ [][NextThreads]_vars

----------------------------------------------------------------------------
(* The admin empties and refills the inventory: cupboards are removed from  *)
(* either end of the stored list, down to the empty list, and added again,  *)
(* while items of cupboard 1 are added, removed and toggled.                *)

\* ids of the first and of the last cupboard of the stored list, and an id
\* that no cupboard has
EndCupboardIds ==
    {12} \cup (IF Cupboards = <<>> THEN {}
               ELSE {Cupboards[1].id, Cupboards[Len(Cupboards)].id})

NextCupboards ==
    \/ \E n \in CupboardNames : Call_add_cupboard(n)
    \/ \E c \in EndCupboardIds : Call_remove_cupboard(c)
    \/ \E n \in ItemNames : Call_add_item(1, n)
    \/ Call_remove_item(1, "C1_002")
    \/ Call_toggle_lock(1, "C1_002", "JDOE", FALSE)

SpecCupboards == Init /\ [][NextCupboards]_vars

----------------------------------------------------------------------------
(* Properties of the inventory methods (checked under SpecDM) *)

\* positions <<ci, ii>> of the items of a document
Positions(data) ==
    UNION {{<<ci, ii>> : ii \in DOMAIN data.cupboards[ci].items} :
              ci \in DOMAIN data.cupboards}

ItemAt(data, p) == data.cupboards[p[1]].items[p[2]]

\* positions of the items that a call names by cupboard id and item id
Named(data, cupboard_id, item_id) ==
    {p \in Positions(data) :
        /\ data.cupboards[p[1]].id = cupboard_id
        /\ ItemAt(data, p).id = item_id}

\* indices of the cupboards with this id
CupboardsWithId(data, cupboard_id) ==
    {ci \in DOMAIN data.cupboards : data.cupboards[ci].id = cupboard_id}

\* s without its k-th element
Without(s, k) == SubSeq(s, 1, k - 1) \o SubSeq(s, k + 1, Len(s))

LockInvariant(data) ==
    \A p \in Positions(data) :
        LET item == ItemAt(data, p)
        IN  /\ item.is_locked = TRUE <=> item.borrowed_by = None
            /\ item.is_locked = TRUE <=> item.borrowed_at = None

\* C1: every item of the inventory document is locked exactly when it has no
\* borrower and exactly when it has no borrow time, in every reachable state,
\* and so before and after every toggle_lock call.
C1_LockedIffNoBorrower ==
    /\ LockInvariant(data_file.json)
    /\ last.op = "toggle_lock" => LockInvariant(last.pre)

\* a toggle_lock call has just borrowed an item that was added by add_item
C1_Witness ==
    /\ last.op = "toggle_lock"
    /\ last.action = "unlocked"
    /\ \E p \in Named(data_file.json, last.cupboard_id, last.item_id) :
          /\ ItemAt(data_file.json, p).name \in ItemNames
          /\ ~ItemAt(data_file.json, p).is_locked
          /\ ItemAt(data_file.json, p).borrowed_by = last.nt_id

\* the call named an unlocked item that someone else borrowed, without admin rights
ForeignReturn ==
    /\ last.op = "toggle_lock"
    /\ ~last.is_admin
    /\ \E p \in Named(last.pre, last.cupboard_id, last.item_id) :
          /\ ~ItemAt(last.pre, p).is_locked
          /\ ItemAt(last.pre, p).borrowed_by # last.nt_id

\* C2: toggle_lock by a non-admin actor on an item that another actor has
\* borrowed returns 'not_authorized' with the names of the item and of the
\* cupboard, and leaves the inventory document as it was.
C2_ForeignReturnRefused ==
    ForeignReturn =>
        /\ last.action = "not_authorized"
        /\ \E p \in Named(last.pre, last.cupboard_id, last.item_id) :
              /\ last.item_name = ItemAt(last.pre, p).name
              /\ last.cupboard_name = last.pre.cupboards[p[1]].name
        /\ data_file.json = last.pre
        /\ History = last.hpre

C2_Witness == ForeignReturn /\ last.action = "not_authorized"

\* the number add_item must pick: the smallest n >= 1 whose id no item has
SmallestFree(cupboard, cupboard_id) ==
    Min({n \in 1..(Len(cupboard.items) + 1) :
            \A ii \in DOMAIN cupboard.items :
                cupboard.items[ii].id # ItemId(cupboard_id, n)})

\* C6: add_item on an existing cupboard returns true and appends one item,
\* locked and without borrower, whose id is C<c>_<n> for the smallest n >= 1
\* that no item of the cupboard uses; the other items and cupboards stay.
C6_AddItemSmallestFreeId ==
    (last.op = "add_item" /\ CupboardsWithId(last.pre, last.cupboard_id) # {}) =>
        LET ci == Min(CupboardsWithId(last.pre, last.cupboard_id))
            before == last.pre.cupboards[ci]
            n == SmallestFree(before, last.cupboard_id)
        IN  /\ last.ret = TRUE
            /\ data_file.json =
                  [last.pre EXCEPT !.cupboards[ci].items =
                      Append(@, [id |-> ItemId(last.cupboard_id, n),
                                 name |-> last.name, is_locked |-> TRUE,
                                 borrowed_by |-> None, borrowed_at |-> None])]

\* add_item has just reused C1_002, which remove_item had freed, while C1_001,
\* C1_003 and C1_004 were in the cupboard
C6_Witness ==
    /\ last.op = "add_item" /\ last.cupboard_id = 1
    /\ Named(last.pre, 1, "C1_002") = {}
    /\ Named(last.pre, 1, "C1_001") # {}
    /\ Named(last.pre, 1, "C1_003") # {}
    /\ \E p \in Named(data_file.json, 1, "C1_002") :
          p[2] = Len(data_file.json.cupboards[p[1]].items)

\* the item a remove_item call names is not in the document
RemoveTargetAbsent == Named(last.pre, last.cupboard_id, last.item_id) = {}

\* C7 as claimed: remove_item returns true for every cupboard id and item id,
\* and leaves the document unchanged when the target is absent.
C7_AlwaysTrue ==
    last.op = "remove_item" =>
        /\ last.ret = TRUE
        /\ RemoveTargetAbsent => data_file.json = last.pre

\* C7, amended: remove_item returns true exactly when some cupboard has the
\* given id (whether or not that cupboard holds the item) and false when none
\* has; when the cupboard or the item is absent the document is unchanged, and
\* otherwise exactly the items with that id leave that cupboard.
C7_TrueIffCupboardExists ==
    last.op = "remove_item" =>
        /\ last.ret = TRUE <=> CupboardsWithId(last.pre, last.cupboard_id) # {}
        /\ RemoveTargetAbsent => data_file.json = last.pre
        /\ \A p \in Named(last.pre, last.cupboard_id, last.item_id) :
              data_file.json =
                  [last.pre EXCEPT !.cupboards[p[1]].items = Without(@, p[2])]

\* remove_item was called with an id that no cupboard has
C7_Witness ==
    /\ last.op = "remove_item"
    /\ CupboardsWithId(last.pre, last.cupboard_id) = {}
    /\ last.ret = FALSE
    /\ data_file.json = last.pre

\* C8: remove_cupboard returns true; with an id that no cupboard has it leaves
\* the document unchanged, and with an existing id it removes that cupboard,
\* items included, and nothing else.
C8_RemoveCupboardFrame ==
    last.op = "remove_cupboard" =>
        /\ last.ret = TRUE
        /\ CupboardsWithId(last.pre, last.cupboard_id) = {} =>
              data_file.json = last.pre
        /\ \A ci \in CupboardsWithId(last.pre, last.cupboard_id) :
              data_file.json = [last.pre EXCEPT !.cupboards = Without(@, ci)]

\* remove_cupboard has just removed a cupboard that held items while a
\* cupboard with a larger id stayed
C8_Witness ==
    /\ last.op = "remove_cupboard"
    /\ \E ci \in CupboardsWithId(last.pre, last.cupboard_id) :
          /\ last.pre.cupboards[ci].items # <<>>
          /\ ci < Len(last.pre.cupboards)
    /\ Len(Cupboards) = Len(last.pre.cupboards) - 1

\* C10 as claimed: a non-admin actor borrows an item that another actor has
\* borrowed: the call returns 'unlocked' and the item is now borrowed by the caller.
C10_BorrowFromBorrower ==
    ForeignReturn =>
        /\ last.action = "unlocked"
        /\ \A p \in Named(data_file.json, last.cupboard_id, last.item_id) :
              /\ ~ItemAt(data_file.json, p).is_locked
              /\ ItemAt(data_file.json, p).borrowed_by = last.nt_id

\* C10, amended: borrowing has no ownership check for locked items only: a
\* toggle_lock call by any actor on a locked item returns 'unlocked' and
\* leaves the item unlocked and borrowed by the caller; on an item that
\* another actor has borrowed, a non-admin call does not return 'unlocked'
\* and the borrower stays who it was.
C10_BorrowLockedOnly ==
    last.op = "toggle_lock" =>
        \A p \in Named(last.pre, last.cupboard_id, last.item_id) :
            /\ ItemAt(last.pre, p).is_locked =>
                  /\ last.action = "unlocked"
                  /\ ~ItemAt(data_file.json, p).is_locked
                  /\ ItemAt(data_file.json, p).borrowed_by = last.nt_id
            /\ ForeignReturn =>
                  /\ last.action # "unlocked"
                  /\ ~ItemAt(data_file.json, p).is_locked
                  /\ ItemAt(data_file.json, p).borrowed_by =
                        ItemAt(last.pre, p).borrowed_by

\* a non-admin actor has just borrowed a locked item
C10_Witness ==
    /\ last.op = "toggle_lock" /\ ~last.is_admin
    /\ last.action = "unlocked"
    /\ \E p \in Named(last.pre, last.cupboard_id, last.item_id) :
          /\ ItemAt(last.pre, p).is_locked
          /\ ItemAt(data_file.json, p).borrowed_by = last.nt_id

\* the call named an unlocked item and came with admin rights
AdminReturn ==
    /\ last.op = "toggle_lock"
    /\ last.is_admin
    /\ \E p \in Named(last.pre, last.cupboard_id, last.item_id) :
          ~ItemAt(last.pre, p).is_locked

\* C11: toggle_lock with is_admin = true on an unlocked item, whoever
\* borrowed it and whoever calls, returns 'locked' with the item's and the
\* cupboard's name, and the saved document is the one before the call with
\* that item locked and its borrowed_by and borrowed_at cleared.
C11_AdminReturnsAnyItem ==
    AdminReturn =>
        /\ last.action = "locked"
        /\ \A p \in Named(last.pre, last.cupboard_id, last.item_id) :
              LET item == ItemAt(last.pre, p)
              IN  /\ last.item_name = item.name
                  /\ last.cupboard_name = last.pre.cupboards[p[1]].name
                  /\ data_file.json =
                        [last.pre EXCEPT !.cupboards[p[1]].items[p[2]] =
                            [item EXCEPT !.is_locked = TRUE, !.borrowed_by = None,
                                         !.borrowed_at = None]]

\* an admin call by one actor has just returned what another actor borrowed
C11_Witness ==
    /\ AdminReturn
    /\ last.action = "locked"
    /\ \E p \in Named(last.pre, last.cupboard_id, last.item_id) :
          /\ ItemAt(last.pre, p).borrowed_by # last.nt_id
          /\ ItemAt(data_file.json, p).is_locked

\* the call named no item: no cupboard has the id, or none that has the id
\* holds an item with the item id
NothingNamed ==
    /\ last.op = "toggle_lock"
    /\ Named(last.pre, last.cupboard_id, last.item_id) = {}

\* C12: toggle_lock with a cupboard_id that no cupboard has, or an item_id
\* that no item of the cupboard with that id has, returns None and leaves the
\* inventory file and the audit log as they were.
C12_NotFoundChangesNothing ==
    NothingNamed =>
        /\ last.action = None
        /\ last.item_name = None
        /\ last.cupboard_name = None
        /\ data_file.json = last.pre
        /\ History = last.hpre

\* the call named an existing cupboard and an item id that only another
\* cupboard holds
C12_Witness ==
    /\ NothingNamed
    /\ last.action = None
    /\ CupboardsWithId(last.pre, last.cupboard_id) # {}
    /\ \E p \in Positions(last.pre) : ItemAt(last.pre, p).id = last.item_id

----------------------------------------------------------------------------
(* Properties of the cupboard list (checked under SpecCupboards) *)

\* the id add_cupboard must give: one more than the largest, 1 on an empty list
NextCupboardId(data) ==
    LET ids == {data.cupboards[ci].id : ci \in DOMAIN data.cupboards}
    IN  IF ids = {} THEN 1 ELSE Max(ids) + 1

\* cupboard ids are distinct positive integers, item ids distinct per cupboard
DistinctIds(data) ==
    /\ \A ci \in DOMAIN data.cupboards :
          /\ data.cupboards[ci].id \in Nat \ {0}
          /\ \A cj \in DOMAIN data.cupboards :
                data.cupboards[ci].id = data.cupboards[cj].id => ci = cj
          /\ \A ii, ij \in DOMAIN data.cupboards[ci].items :
                data.cupboards[ci].items[ii].id = data.cupboards[ci].items[ij].id
                    => ii = ij

\* C13: in every document reached from the default data by add_cupboard,
\* remove_cupboard, add_item, remove_item and toggle_lock, cupboard ids are
\* distinct positive integers and item ids are distinct within a cupboard;
\* add_cupboard returns true and appends a cupboard without items whose id is
\* the largest id before the call plus one, or 1 when there was no cupboard.
C13_DistinctIdsNextCupboardId ==
    /\ DistinctIds(data_file.json)
    /\ last.op = "add_cupboard" =>
          /\ last.ret = TRUE
          /\ Cupboards = Append(last.pre.cupboards,
                                [id |-> NextCupboardId(last.pre), name |-> last.name,
                                 items |-> <<>>])

\* add_cupboard has just been called on an inventory without cupboards
C13_Witness ==
    /\ last.op = "add_cupboard"
    /\ last.pre.cupboards = <<>>
    /\ Len(Cupboards) = 1
    /\ Cupboards[1].id = 1

----------------------------------------------------------------------------
(* Properties of the audit-log methods (checked under SpecHistory) *)

\* a filter was given
Given(f) == f # None /\ f # ""

\* positions of the stored entries that pass the filters of the call
Matching ==
    {k \in DOMAIN last.hpre :
        /\ Given(last.nt_id) => upper(last.hpre[k].nt_id) = upper(last.nt_id)
        /\ Given(last.name) => last.hpre[k].action = last.name}

\* the position of the j-th entry that passes
NthMatch(j) == CHOOSE k \in Matching : Cardinality({m \in Matching : m <= k}) = j

\* C9: get_history returns the first `limit` entries, in stored order, of the
\* entries whose nt_id equals the actor filter ignoring case (if one is given)
\* and whose action equals the action filter (if one is given), and leaves the
\* stored log as it was.
C9_GetHistoryFiltered ==
    last.op = "get_history" =>
        /\ Len(last.out) = IF last.limit < Cardinality(Matching)
                           THEN last.limit ELSE Cardinality(Matching)
        /\ \A j \in DOMAIN last.out : last.out[j] = last.hpre[NthMatch(j)]
        /\ History = last.hpre

\* a lower-case actor filter has just matched two stored entries, of which the
\* limit let only the newest through
C9_Witness ==
    /\ last.op = "get_history"
    /\ last.nt_id = "jdoe"
    /\ last.limit = 1
    /\ Cardinality(Matching) = 2
    /\ last.out = <<last.hpre[1]>>

----------------------------------------------------------------------------
(* Properties of the audit log next to the inventory (checked under SpecAudit) *)

InventoryMethods ==
    {"toggle_lock", "add_item", "remove_item", "add_cupboard", "remove_cupboard",
     "get_all_cupboards"}

\* C14: a log_action call leaves a log that is the log before the call with
\* one entry in front of it, the entry of the call, stamped with the current
\* time; after a call of an inventory method or of get_history the log is
\* the log before the call.
C14_LogGrowsAtFrontOnly ==
    /\ last.op = "log_action" =>
          /\ Len(History) = Len(last.hpre) + 1
          /\ Tail(History) = last.hpre
          /\ History[1] = [timestamp |-> Now, action |-> last.action,
                           item_name |-> last.item_name,
                           cupboard_name |-> last.cupboard_name,
                           nt_id |-> last.nt_id]
    /\ last.op \in InventoryMethods \cup {"get_history"} =>
          /\ History = last.hpre
          /\ history_file = Stored([history |-> last.hpre])

\* log_action has just put an entry in front of an older, different one
C14_Witness ==
    /\ last.op = "log_action"
    /\ Len(last.hpre) >= 1
    /\ Len(History) = Len(last.hpre) + 1
    /\ History[1] # History[2]

----------------------------------------------------------------------------
(* Properties of the toggle-lock handler (checked under SpecLending) *)

\* the audit entries of a call, whatever their timestamps
Audit(entries) ==
    [k \in DOMAIN entries |->
        [action |-> entries[k].action, item_name |-> entries[k].item_name,
         cupboard_name |-> entries[k].cupboard_name, nt_id |-> entries[k].nt_id]]

\* C4: a toggle-lock request on a locked item returns 'unlocked'; when the
\* next repository call is the same actor's toggle_lock on the same item, it
\* returns 'locked' and the inventory document is again exactly the one
\* before the first request; and once both requests have been answered,
\* nothing else having been called, the audit log is the log before the
\* first request with two new entries in front, one 'unlocked' and one
\* 'locked', for that item and that actor.
C4_BorrowReturnRoundTrip ==
    /\ (/\ last.op = "toggle_lock"
        /\ last.response \notin {"redirect login", "400 Missing required fields"}) =>
          \A p \in Named(last.pre, last.cupboard_id, last.item_id) :
              ItemAt(last.pre, p).is_locked =>
                  /\ last.action = "unlocked"
                  /\ rt.active /\ ~rt.done
                  /\ rt.item_id = last.item_id /\ rt.nt_id = last.nt_id
    /\ (rt.done /\ last.op = "toggle_lock" /\ last.action # None) =>
          /\ last.action = "locked"
          /\ data_file.json = rt.pre
    /\ (rt.done /\ rt.logged = 2) =>
          /\ data_file.json = rt.pre
          /\ Len(History) = Len(rt.hpre) + 2
          /\ SubSeq(History, 3, Len(History)) = rt.hpre
          /\ \E p \in Named(rt.pre, rt.cupboard_id, rt.item_id) :
                LET entry(action) ==
                        [action |-> action, item_name |-> ItemAt(rt.pre, p).name,
                         cupboard_name |-> rt.pre.cupboards[p[1]].name,
                         nt_id |-> rt.nt_id]
                    new == Audit(SubSeq(History, 1, 2))
                IN  \/ new = <<entry("locked"), entry("unlocked")>>
                    \/ new = <<entry("unlocked"), entry("locked")>>

\* a borrow and the return by the same actor have both been answered, the
\* clock having advanced between the two log_action calls
C4_Witness ==
    /\ rt.done
    /\ rt.logged = 2
    /\ rt.nt_id = "JDOE"
    /\ History[1].action = "locked"
    /\ History[1].timestamp # History[2].timestamp

----------------------------------------------------------------------------
(* Properties of the routes (checked under SpecAccess) *)

\* the cupboards of a document and the id and name of every item in them
Structure(data) ==
    [ci \in DOMAIN data.cupboards |->
        [id |-> data.cupboards[ci].id, name |-> data.cupboards[ci].name,
         items |-> [ii \in DOMAIN data.cupboards[ci].items |->
                       [id |-> data.cupboards[ci].items[ii].id,
                        name |-> data.cupboards[ci].items[ii].name]]]]

\* the request just handled came with a session that was not an admin's:
\* login and logout aside, a request leaves the session as it came (the
\* log_action step belongs to a toggle-lock request handled earlier)
NotAdminRequest ==
    /\ last.op \notin {"none", "login", "logout", "log_action"}
    /\ session.role # "admin"

\* C17: a request whose session is not an admin's leaves the cupboards and
\* the ids and names of their items as they were, changes the inventory
\* file only through toggle-lock, and gets no audit record from the history
\* page; a request without a session changes neither file; the log_action
\* of a toggle-lock request, login and logout leave the inventory file as it
\* was, and a login makes the session an admin's only with the configured
\* admin password.
C17_OnlyAdminsManage ==
    /\ NotAdminRequest =>
          /\ Structure(data_file.json) = Structure(last.pre)
          /\ History = last.hpre
          /\ last.op # "toggle_lock" =>
                /\ data_file.json = last.pre
                /\ last.response \in {"redirect login",
                                       "Access denied. Admin privileges required.", ""}
                /\ last.out \in {<<>>, last.pre.cupboards}
          /\ last.op = "history" => last.out = <<>>
          /\ session.nt_id = None =>
                /\ last.response = "redirect login"
                /\ data_file.json = last.pre
    /\ last.op \in {"login", "logout"} =>
          /\ data_file.json = last.pre
          /\ History = last.hpre
    /\ last.op = "log_action" =>
          /\ data_file.json = last.pre
          /\ last.nt_id # None
          /\ Tail(History) = last.hpre
    /\ (last.op = "login" /\ last.response = "Welcome Admin") =>
          /\ last.name = ADMIN_PASSWORD
          /\ session.role = "admin"
    /\ (last.op = "login" /\ last.name # ADMIN_PASSWORD /\ session.role = "admin") =>
          last.response \in {"Please enter your NT ID.", "Invalid admin password."}

\* a logged-in user without admin role has just posted the remove-cupboard
\* form for an existing cupboard, the audit log not being empty
C17_Witness ==
    /\ last.op = "remove_cupboard"
    /\ session.role = "user"
    /\ last.response = "Access denied. Admin privileges required."
    /\ CupboardsWithId(data_file.json, 10) # {}
    /\ History # <<>>

----------------------------------------------------------------------------
(* Properties of concurrent requests (checked under SpecThreads) *)

\* no request is in flight
Quiescent == \A t \in Threads : pc[t] = "idle"

\* C3: while a thread is between its load and its save of the inventory
\* document, holding the lock, no other thread writes the inventory file: it
\* still holds the document the thread loaded.
C3_NoWriteBetweenLoadAndSave ==
    \A t \in Threads :
        pc[t] = "_save_data" => data_file = Stored(loc[t].data)

\* C5: when no request is in flight, the audit log has one entry for every
\* toggle_lock call that changed an item's state.
C5_AuditEntryPerToggle ==
    Quiescent => Len(History) = toggles

\* indices of the audit entries that name the item, newest first
EntriesNaming(data, p) ==
    {k \in DOMAIN History :
        /\ History[k].item_name = ItemAt(data, p).name
        /\ History[k].cupboard_name = data.cupboards[p[1]].name}

\* C15: when no request is in flight, for every item that the audit log
\* names, the newest entry naming it is 'unlocked' exactly when the item is
\* unlocked in the inventory, and then the entry's nt_id is the item's
\* borrowed_by.
C15_NewestEntryMatchesItem ==
    Quiescent =>
        \A p \in Positions(data_file.json) :
            EntriesNaming(data_file.json, p) # {} =>
                LET item == ItemAt(data_file.json, p)
                    newest == History[Min(EntriesNaming(data_file.json, p))]
                IN  /\ newest.action = "unlocked" <=> ~item.is_locked
                    /\ ~item.is_locked => newest.nt_id = item.borrowed_by

\* both threads have answered one toggle-lock request each, for the same
\* item and for different actors
SameItemRace ==
    /\ Quiescent
    /\ \A t \in Threads : loc[t].reqs = 1 /\ loc[t].cupboard_id # 0
    /\ \A t, u \in Threads :
          t # u => /\ loc[t].cupboard_id = loc[u].cupboard_id
                   /\ loc[t].item_id = loc[u].item_id
                   /\ loc[t].nt_id # loc[u].nt_id

\* C16: when two different non-admin actors toggle the same locked item
\* concurrently, one call returns 'unlocked', the other 'not_authorized', and
\* the item is then unlocked with the first one's id as borrowed_by.
C16_OneBorrowerWins ==
    SameItemRace =>
        \E t \in Threads :
            /\ loc[t].action = "unlocked"
            /\ \A u \in Threads \ {t} : loc[u].action = "not_authorized"
            /\ loadable(data_file)
            /\ \A p \in Named(data_file.json, loc[t].cupboard_id, loc[t].item_id) :
                  /\ ~ItemAt(data_file.json, p).is_locked
                  /\ ItemAt(data_file.json, p).borrowed_by = loc[t].nt_id

====
